---------------------------- MODULE Spec2Model ----------------------------
(***************************************************************************)
(* Terra: location-tagged complaints / compliments shown on a map.         *)
(*                                                                         *)
(* Units.  A coordinate is a pair of integers in units of 1e-4 degree.     *)
(* A distance is an integer number of centimetres.  All points of the      *)
(* model lie within 0.01 degree of the equator, where the haversine        *)
(* formula of calculateDistance reduces to R * (pi/180) * sqrt(dLat^2 +    *)
(* dLon^2) to better than 1e-8 (cos(lat) = 1, atan2 and sin are linear).   *)
(***************************************************************************)
EXTENDS Integers, Sequences, FiniteSets, TLC

VARIABLES
    \* ---- the document store (Firestore collection 'submissions')
    store,            \* sequence of stored records, in insertion order
    \* ---- MapSection component state
    submissions,      \* useState([]): the records shown
    clusters,         \* useState([]): clusterLocations(submissions, 0.05)
    loadingData,      \* useState(true)
    firebaseBlocked,  \* useState(false)
    currentBounds,    \* useState(null)
    refreshTrigger,   \* useState(0)
    isFetchingRef,    \* useRef(false)
    fetchTimeoutRef,  \* the pending debounce timer: None or its bounds
    inflight,         \* range queries sent to the store and not yet answered, each
                      \* with a note of who asked and of what was stored and shown
    \* ---- observation of the coordinator (history, no effect on behaviour)
    sinceChange,      \* "within" / "elapsed": 600 ms since the last viewport call?
    burst,            \* the viewport calls and queries of the current burst
    lastFetch,        \* what the last step did with fetchSubmissionsInBounds
    lastDone,         \* the last answered range query, as the component saw it
    \* ---- App component: one handleSubmit execution per tab
    tabs,
    \* ---- clustering, applied to a drawn input
    input,            \* the submissions argument
    thresholdKm,      \* the thresholdKm argument, in centimetres
    output            \* None, or Some(the returned clusters)
    \* (the specifications of the other pure functions hold their arguments
    \* in input and what was returned in output)

vars == <<store, submissions, clusters, loadingData, firebaseBlocked,
          currentBounds, refreshTrigger, isFetchingRef, fetchTimeoutRef,
          inflight, sinceChange, burst, lastFetch, lastDone, tabs,
          input, thresholdKm, output>>

\* an absent value is the empty sequence, a present one a sequence of length 1
None == <<>>

Some(x) == <<x>>

(***************************************************************************)
(* Bounds of the model.                                                    *)
(***************************************************************************)
MaxLen == 3        \* longest input list handed to clusterLocations
MaxRefresh == 2    \* cap on the refreshTrigger counter
MaxStore == 3      \* cap on the number of stored records

(***************************************************************************)
(* Generic helpers.                                                        *)
(***************************************************************************)
Abs(x) == IF x < 0 THEN -x ELSE x

Range(s) == {s[i] : i \in DOMAIN s}

RECURSIVE ISqrtFrom(_, _, _)
ISqrtFrom(n, lo, hi) ==
    \* largest r in lo..hi with r*r <= n (binary search)
    IF lo >= hi THEN lo
    ELSE LET mid == (lo + hi + 1) \div 2
         IN  IF mid * mid <= n THEN ISqrtFrom(n, mid, hi)
             ELSE ISqrtFrom(n, lo, mid - 1)

ISqrt(n) == ISqrtFrom(n, 0, 46340)

RECURSIVE SumSeq(_)
SumSeq(s) == IF s = <<>> THEN 0 ELSE Head(s) + SumSeq(Tail(s))

(***************************************************************************)
(* utils/categories: CATEGORIES and getCategoryId.                         *)
(***************************************************************************)
CATEGORIES ==
    [tile1 |-> [categoryId |-> "roads"],
     tile2 |-> [categoryId |-> "garbage"],
     tile3 |-> [categoryId |-> "footpath"]]

\* getCategoryId without the CATEGORIES lookup
getCategoryIdIdentity(tileId) == tileId

getCategoryId(tileId) ==
    \* CATEGORIES[tileId]?.categoryId || tileId
    IF tileId \in DOMAIN CATEGORIES THEN CATEGORIES[tileId].categoryId ELSE tileId

\* every key of a selectedTiles object, whatever its value
SelectedOfKeys(selectedTiles) == DOMAIN selectedTiles

\* the tiles of a selectedTiles object whose value is true
SelectedOf(selectedTiles) == {t \in DOMAIN selectedTiles : selectedTiles[t]}

toLowerCase(mode) == IF mode = "Complaint" THEN "complaint" ELSE "compliment"

(***************************************************************************)
(* utils/clustering: calculateDistance.                                    *)
(***************************************************************************)
\* (R * pi / 180 * 1e-4 degree)^2 in cm^2: 1111.949 cm per unit, squared
CmSqPerUnitSq == 1236431

\* calculateDistance without the longitude term
calculateDistanceNoLon(lat1, lon1, lat2, lon2) ==
    ISqrt(CmSqPerUnitSq * ((lat2 - lat1) * (lat2 - lat1)))

\* the distance in whole centimetres (truncated)
calculateDistance(lat1, lon1, lat2, lon2) ==
    LET dLat == lat2 - lat1
        dLon == lon2 - lon1
    IN  ISqrt(CmSqPerUnitSq * (dLat * dLat + dLon * dLon))

(***************************************************************************)
(* calculateDistance in double arithmetic, beyond the short distances near *)
(* the equator.  The result is [nan, cm]: NaN, or the distance in whole    *)
(* centimetres.  Math.sin and Math.cos are implementation-approximated, so *)
(* the sum a of line 76 is the exact value or a neighbouring double:       *)
(* rounding is -1 (the double below), 0, or 1 (the double above).  Between *)
(* coincident points every term is an exact 0.  Between antipodal points   *)
(* (lat2 = -lat1, lon2 = lon1 + 180 degrees) the exact a is 1; for a = 1 + *)
(* 2^-52 Math.sqrt(1 - a) is NaN and so are atan2 and the product with R.  *)
(* At short distances the error of a is far below one centimetre.          *)
(***************************************************************************)
HalfTurn == 1800000           \* 180 degrees, in 1e-4 degree

AntipodalCm == 2001508679     \* R * pi: 2 * atan2(1, 0) * 6371 km
BelowAntipodalCm == 2001508666    \* R * 2 * atan2(sqrt(a), sqrt(1 - a)), a = 1 - 2^-53

IsAntipodal(lat1, lon1, lat2, lon2) ==
    lat2 = -lat1 /\ Abs(lon2 - lon1) = HalfTurn

\* calculateDistance with a clamped to [0, 1] before the square roots
calculateDistanceClamped(lat1, lon1, lat2, lon2, rounding) ==
    IF lat1 = lat2 /\ lon1 = lon2 THEN [nan |-> FALSE, cm |-> 0]
    ELSE IF IsAntipodal(lat1, lon1, lat2, lon2)
    THEN IF rounding < 0 THEN [nan |-> FALSE, cm |-> BelowAntipodalCm]
         ELSE [nan |-> FALSE, cm |-> AntipodalCm]
    ELSE [nan |-> FALSE, cm |-> calculateDistance(lat1, lon1, lat2, lon2)]

calculateDistanceDouble(lat1, lon1, lat2, lon2, rounding) ==
    IF lat1 = lat2 /\ lon1 = lon2 THEN [nan |-> FALSE, cm |-> 0]
    ELSE IF IsAntipodal(lat1, lon1, lat2, lon2)
    THEN IF rounding > 0 THEN [nan |-> TRUE, cm |-> 0]
         ELSE IF rounding = 0 THEN [nan |-> FALSE, cm |-> AntipodalCm]
         ELSE [nan |-> FALSE, cm |-> BelowAntipodalCm]
    ELSE [nan |-> FALSE, cm |-> calculateDistance(lat1, lon1, lat2, lon2)]

(***************************************************************************)
(* utils/clustering: clusterLocations.                                     *)
(***************************************************************************)
\* the forEach over Object.keys(selectedTiles) that counts the categories
RECURSIVE CountCategories(_, _, _)
CountCategories(categories, tiles, mode) ==
    IF tiles = {} THEN categories
    ELSE LET tileId == CHOOSE t \in tiles : TRUE
             categoryId == getCategoryId(tileId)
             opened == IF categoryId \in DOMAIN categories THEN categories
                       ELSE categories @@
                            (categoryId :> [complaint |-> 0, compliment |-> 0])
             modeKey == toLowerCase(mode)
             counted == [opened EXCEPT ![categoryId][modeKey] = @ + 1]
         IN  CountCategories(counted, tiles \ {tileId}, mode)

EmptyCategories == [c \in {} |-> [complaint |-> 0, compliment |-> 0]]

\* a cluster holding the seed alone (lines 95-131)
SeedCluster(submission, index) ==
    [id |-> index,
     center |-> [lat |-> [num |-> submission.location.lat, den |-> 1],
                 lon |-> [num |-> submission.location.lon, den |-> 1]],
     submissions |-> <<submission>>,
     count |-> 1,
     modes |-> [[Complaint |-> 0, Compliment |-> 0] EXCEPT ![submission.mode] = 1],
     categories |-> CountCategories(EmptyCategories,
                                    SelectedOf(submission.selectedTiles),
                                    submission.mode)]

\* the absorption without the update of the mode counts
AbsorbNoModes(cluster, otherSubmission) ==
    LET members == Append(cluster.submissions, otherSubmission)
        totalLat == SumSeq([k \in DOMAIN members |-> members[k].location.lat])
        totalLon == SumSeq([k \in DOMAIN members |-> members[k].location.lon])
    IN  [cluster EXCEPT
            !.submissions = members,
            !.count = @ + 1,
            !.categories = CountCategories(@, SelectedOf(otherSubmission.selectedTiles),
                                           otherSubmission.mode),
            !.center = [lat |-> [num |-> totalLat, den |-> Len(members)],
                        lon |-> [num |-> totalLon, den |-> Len(members)]]]

\* the absorption with the center set to the midpoint of the seed and the
\* submission absorbed
AbsorbPairCenter(cluster, otherSubmission) ==
    LET members == Append(cluster.submissions, otherSubmission)
        seed == cluster.submissions[1].location
    IN  [cluster EXCEPT
            !.submissions = members,
            !.count = @ + 1,
            !.modes[otherSubmission.mode] = @ + 1,
            !.categories = CountCategories(@, SelectedOf(otherSubmission.selectedTiles),
                                           otherSubmission.mode),
            !.center = [lat |-> [num |-> seed.lat + otherSubmission.location.lat,
                                 den |-> 2],
                        lon |-> [num |-> seed.lon + otherSubmission.location.lon,
                                 den |-> 2]]]

\* the cluster after absorbing otherSubmission (lines 147-180)
Absorb(cluster, otherSubmission) ==
    LET members == Append(cluster.submissions, otherSubmission)
        totalLat == SumSeq([k \in DOMAIN members |-> members[k].location.lat])
        totalLon == SumSeq([k \in DOMAIN members |-> members[k].location.lon])
    IN  [cluster EXCEPT
            !.submissions = members,
            !.count = @ + 1,
            !.modes[otherSubmission.mode] = @ + 1,
            !.categories = CountCategories(@, SelectedOf(otherSubmission.selectedTiles),
                                           otherSubmission.mode),
            !.center = [lat |-> [num |-> totalLat, den |-> Len(members)],
                        lon |-> [num |-> totalLon, den |-> Len(members)]]]

\* the test of the inner scan with < in place of <=
IsNearbyStrict(submission, otherSubmission, threshold) ==
    calculateDistance(submission.location.lat, submission.location.lon,
                      otherSubmission.location.lat, otherSubmission.location.lon)
        < threshold

\* does the inner scan absorb otherSubmission into the cluster seeded by submission?
IsNearby(submission, otherSubmission, threshold) ==
    calculateDistance(submission.location.lat, submission.location.lon,
                      otherSubmission.location.lat, otherSubmission.location.lon)
        <= threshold

\* the inner scan with the distance taken from the evolving center of the
\* cluster instead of the seed
RECURSIVE FindNearbyCentroid(_, _, _, _, _)
FindNearbyCentroid(subs, index, otherIndex, st, threshold) ==
    IF otherIndex > Len(subs) THEN st
    ELSE IF otherIndex \in st.processed \/ index = otherIndex
         THEN FindNearbyCentroid(subs, index, otherIndex + 1, st, threshold)
    ELSE LET center == st.cluster.center
             other == subs[otherIndex].location
             dLat == other.lat * center.lat.den - center.lat.num
             dLon == other.lon * center.lon.den - center.lon.num
             near == CmSqPerUnitSq * (dLat * dLat + dLon * dLon)
                        <= threshold * threshold * center.lat.den * center.lat.den
         IN  IF near
             THEN FindNearbyCentroid(subs, index, otherIndex + 1,
                                     [cluster |-> Absorb(st.cluster, subs[otherIndex]),
                                      processed |-> st.processed \cup {otherIndex}],
                                     threshold)
             ELSE FindNearbyCentroid(subs, index, otherIndex + 1, st, threshold)

\* the inner scan with the distance taken from any member of the cluster
RECURSIVE FindNearbyAnyMember(_, _, _, _, _)
FindNearbyAnyMember(subs, index, otherIndex, st, threshold) ==
    IF otherIndex > Len(subs) THEN st
    ELSE IF otherIndex \in st.processed \/ index = otherIndex
         THEN FindNearbyAnyMember(subs, index, otherIndex + 1, st, threshold)
    ELSE IF \E m \in DOMAIN st.cluster.submissions :
               IsNearby(st.cluster.submissions[m], subs[otherIndex], threshold)
         THEN FindNearbyAnyMember(subs, index, otherIndex + 1,
                                  [cluster |-> Absorb(st.cluster, subs[otherIndex]),
                                   processed |-> st.processed \cup {otherIndex}],
                                  threshold)
    ELSE FindNearbyAnyMember(subs, index, otherIndex + 1, st, threshold)

\* the inner submissions.forEach (lines 136-184); st = [cluster, processed]
RECURSIVE FindNearby(_, _, _, _, _)
FindNearby(subs, index, otherIndex, st, threshold) ==
    IF otherIndex > Len(subs) THEN st
    ELSE IF otherIndex \in st.processed \/ index = otherIndex
         THEN FindNearby(subs, index, otherIndex + 1, st, threshold)
    ELSE IF IsNearby(subs[index], subs[otherIndex], threshold)
         THEN FindNearby(subs, index, otherIndex + 1,
                         [cluster |-> Absorb(st.cluster, subs[otherIndex]),
                          processed |-> st.processed \cup {otherIndex}],
                         threshold)
    ELSE FindNearby(subs, index, otherIndex + 1, st, threshold)

\* the outer submissions.forEach (lines 92-187); acc = [clusters, processed]
RECURSIVE ClusterFrom(_, _, _, _)
ClusterFrom(subs, index, acc, threshold) ==
    IF index > Len(subs) THEN acc.clusters
    ELSE IF index \in acc.processed
         THEN ClusterFrom(subs, index + 1, acc, threshold)
    ELSE LET st == FindNearby(subs, index, 1,
                              [cluster |-> SeedCluster(subs[index], index - 1),
                               processed |-> acc.processed \cup {index}],
                              threshold)
         IN  ClusterFrom(subs, index + 1,
                         [clusters |-> Append(acc.clusters, st.cluster),
                          processed |-> st.processed],
                         threshold)

clusterLocationsNoProcessed(subs, threshold) ==
    \* a pass that forgets which submissions were absorbed
    [i \in DOMAIN subs |->
        FindNearby(subs, i, 1,
                   [cluster |-> SeedCluster(subs[i], i - 1), processed |-> {i}],
                   threshold).cluster]

\* a threshold of 0 taken as absent and replaced by the default of 0.05 km
clusterLocationsDefaulting(subs, threshold) ==
    IF Len(subs) = 0 THEN <<>>
    ELSE ClusterFrom(subs, 1, [clusters |-> <<>>, processed |-> {}],
                     IF threshold = 0 THEN 5000 ELSE threshold)

clusterLocations(subs, threshold) ==
    IF Len(subs) = 0 THEN <<>>
    ELSE ClusterFrom(subs, 1, [clusters |-> <<>>, processed |-> {}], threshold)


(***************************************************************************)
(* utils/geohash.  A geohash is a sequence of character codes (UTF-16 code *)
(* units), compared as strings are: code by code, a proper prefix first.   *)
(***************************************************************************)
\* "0123456789bcdefghjkmnpqrstuvwxyz"
Base32 == <<48, 49, 50, 51, 52, 53, 54, 55, 56, 57,
            98, 99, 100, 101, 102, 103, 104, 106, 107, 109, 110,
            112, 113, 114, 115, 116, 117, 118, 119, 120, 121, 122>>

\* the sentinel appended to a prefix: the code unit U+F8FF
HighChar == <<63743>>

\* half the width of the latitude / of the longitude axis, in 1e-4 degree
LatSpan == 900000
LonSpan == 1800000

\* The bisection of ngeohash.encode: n bits, longitude first, then alternating.
\* x / sx is the position of the coordinate within the current (min, max] interval
\* of the axis whose turn it is, y / sy that of the other axis.
RECURSIVE GeohashBits(_, _, _, _, _)
GeohashBits(x, sx, y, sy, n) ==
    IF n = 0 THEN <<>>
    ELSE IF 2 * x > sx
         THEN <<1>> \o GeohashBits(y, sy, 2 * x - sx, sx, n - 1)
         ELSE <<0>> \o GeohashBits(y, sy, 2 * x, sx, n - 1)

\* geohash.encode of the point (latNum / den, lonNum / den)
GeohashOf(latNum, lonNum, den, precision) ==
    LET bits == GeohashBits(lonNum + LonSpan * den, 2 * LonSpan * den,
                            latNum + LatSpan * den, 2 * LatSpan * den,
                            5 * precision)
    IN  [k \in 1..precision |->
            Base32[1 + 16 * bits[5 * k - 4] + 8 * bits[5 * k - 3]
                     + 4 * bits[5 * k - 2] + 2 * bits[5 * k - 1] + bits[5 * k]]]

encodeGeohash(lat, lon, precision) == GeohashOf(lat, lon, 1, precision)

\* a <= b for strings
RECURSIVE StrLeq(_, _)
StrLeq(a, b) ==
    IF a = <<>> THEN TRUE
    ELSE IF b = <<>> THEN FALSE
    ELSE IF Head(a) # Head(b) THEN Head(a) < Head(b)
    ELSE StrLeq(Tail(a), Tail(b))

\* the precision table with the rows of 6 and 7 exchanged
RadiusPrecisionSwapped(radiusKm) ==
    IF radiusKm <= 200 THEN 8
    ELSE IF radiusKm <= 1500 THEN 6
    ELSE IF radiusKm <= 12000 THEN 7
    ELSE IF radiusKm <= 50000 THEN 5
    ELSE 4

\* the precision chosen for a radius (lines 35-40); radiusKm in units of 1e-4 km
RadiusPrecision(radiusKm) ==
    IF radiusKm <= 200 THEN 8
    ELSE IF radiusKm <= 1500 THEN 7
    ELSE IF radiusKm <= 12000 THEN 6
    ELSE IF radiusKm <= 50000 THEN 5
    ELSE 4

\* getGeohashRange with max left equal to the prefix
getGeohashRangeNoSentinel(centerLat, centerLon, radiusKm) ==
    LET centerHash == encodeGeohash(centerLat, centerLon, RadiusPrecision(radiusKm))
    IN  [min |-> centerHash, max |-> centerHash]

getGeohashRange(centerLat, centerLon, radiusKm) ==
    LET centerHash == encodeGeohash(centerLat, centerLon, RadiusPrecision(radiusKm))
    IN  [min |-> centerHash, max |-> centerHash \o HighChar]

\* the precision chosen for a viewport; radiusKm in units of 1e-4 km
BoundsPrecision(radiusKm) ==
    IF radiusKm <= 10000 THEN 6
    ELSE IF radiusKm <= 100000 THEN 5
    ELSE IF radiusKm <= 500000 THEN 4
    ELSE IF radiusKm <= 1000000 THEN 3
    ELSE 2

getGeohashRangesForBounds(southWest, northEast) ==
    LET latDiff == Abs(northEast.lat - southWest.lat)
        lonDiff == Abs(northEast.lng - southWest.lng)
        radiusKm == (IF latDiff >= lonDiff THEN latDiff ELSE lonDiff) * 111
        centerHash == GeohashOf(southWest.lat + northEast.lat,
                                southWest.lng + northEast.lng, 2,
                                BoundsPrecision(radiusKm))
    IN  << [min |-> centerHash, max |-> centerHash \o HighChar] >>

\* isWithinBounds without the two longitude tests
isWithinBoundsLatOnly(point, southWest, northEast) ==
    /\ point.lat >= southWest.lat
    /\ point.lat <= northEast.lat

isWithinBounds(point, southWest, northEast) ==
    /\ point.lat >= southWest.lat
    /\ point.lat <= northEast.lat
    /\ point.lon >= southWest.lng
    /\ point.lon <= northEast.lng

(***************************************************************************)
(* The store and the range query of fetchSubmissionsInBounds.              *)
(* A stored record is [id, userId, mode, location, selectedTiles,          *)
(* timestamp, geohash]; timestamp is a day number, geohash is None when    *)
(* the document has no such field.                                         *)
(***************************************************************************)
Today == 100            \* new Date(), as a day number
RetentionDays == 90
LimitRows == 5000
ClusterThreshold == 5000      \* 0.05 km in centimetres
DuplicateThreshold == 10000   \* 0.1 km in centimetres

getSouthWest(bounds) == [lat |-> bounds.south, lng |-> bounds.west]
getNorthEast(bounds) == [lat |-> bounds.north, lng |-> bounds.east]

\* orderBy('geohash'), orderBy('timestamp', 'desc'); ties in insertion order
DocBefore(a, b) ==
    IF a.geohash # b.geohash THEN StrLeq(a.geohash[1], b.geohash[1])
    ELSE IF a.timestamp # b.timestamp THEN a.timestamp > b.timestamp
    ELSE a.id < b.id

RECURSIVE InsertDoc(_, _)
InsertDoc(d, sorted) ==
    IF sorted = <<>> THEN <<d>>
    ELSE IF DocBefore(d, Head(sorted)) THEN <<d>> \o sorted
    ELSE <<Head(sorted)>> \o InsertDoc(d, Tail(sorted))

RECURSIVE SortDocs(_)
SortDocs(docs) ==
    IF docs = <<>> THEN <<>> ELSE InsertDoc(Head(docs), SortDocs(Tail(docs)))

\* the documents getDocs(q) returns for the query of lines 152-160
QuerySnapshot(docs, geohashRange) ==
    LET Matches(d) ==
            /\ d.geohash # None
            /\ StrLeq(geohashRange.min, d.geohash[1])
            /\ StrLeq(d.geohash[1], geohashRange.max)
            /\ d.timestamp >= Today - RetentionDays
        ordered == SortDocs(SelectSeq(docs, Matches))
    IN  SubSeq(ordered, 1, IF Len(ordered) < LimitRows THEN Len(ordered) ELSE LimitRows)

\* the data array built from the snapshot (lines 145-172)
FetchedData(docs, bounds) ==
    LET southWest == getSouthWest(bounds)
        northEast == getNorthEast(bounds)
        geohashRange == getGeohashRangesForBounds(southWest, northEast)[1]
        InView(d) == isWithinBounds(d.location, southWest, northEast)
    IN  SelectSeq(QuerySnapshot(docs, geohashRange), InView)

\* the condition of the catch block (line 181); a message is a set of words
IsBlockedError(error) ==
    \/ error.code = "unavailable"
    \/ /\ error.message # None
       /\ ("blocked" \in error.message[1] \/ "network" \in error.message[1])

\* the clustering effect (lines 227-234)
ClusteredView(data) ==
    IF Len(data) > 0 THEN clusterLocations(data, ClusterThreshold) ELSE <<>>

(***************************************************************************)
(* Values the components hold before anything has happened.                *)
(***************************************************************************)
MapMounted ==
    /\ submissions = <<>>
    /\ clusters = <<>>
    /\ loadingData = TRUE
    /\ firebaseBlocked = FALSE
    /\ currentBounds = None
    /\ refreshTrigger = 0
    /\ isFetchingRef = FALSE
    /\ fetchTimeoutRef = None
    /\ inflight = <<>>
    /\ sinceChange = "elapsed"
    /\ burst = [calls |-> 0, queries |-> <<>>, refreshed |-> FALSE]
    /\ lastFetch = [by |-> "mount", result |-> "none"]
    /\ lastDone = None

NoTabs == tabs = <<>>

NoClustering ==
    /\ input = <<>>
    /\ thresholdKm = 0
    /\ output = None

mapVars == <<submissions, clusters, loadingData, firebaseBlocked, currentBounds,
             refreshTrigger, isFetchingRef, fetchTimeoutRef, inflight,
             sinceChange, burst, lastFetch, lastDone>>

clusterVars == <<input, thresholdKm, output>>

(***************************************************************************)
(* SpecCluster: clusterLocations applied to every short input list.        *)
(***************************************************************************)
PointA == [lat |-> 0, lon |-> 0]
PointB == [lat |-> 0, lon |-> 4]      \* 44 m east of A
PointC == [lat |-> 0, lon |-> 8]      \* 89 m east of A, 44 m east of B

Modes == {"Complaint", "Compliment"}

ClusterTiles ==
    { [tile1 |-> TRUE, tile2 |-> FALSE],
      [tile1 |-> TRUE, tile2 |-> TRUE],
      [tile10 |-> TRUE] }

ClusterThresholds == {0, 5000}

\* the input lists of length n; the record at index i carries id i
InputsOfLen(n) ==
    { [i \in 1..n |-> [id |-> i, mode |-> f[i][1], location |-> f[i][2],
                       selectedTiles |-> f[i][3]]] :
        f \in [1..n -> Modes \X {PointA, PointB, PointC} \X ClusterTiles] }

InitCluster ==
    /\ store = <<>>
    /\ MapMounted
    /\ NoTabs
    /\ \E n \in 0..MaxLen : input \in InputsOfLen(n)
    /\ thresholdKm \in ClusterThresholds
    /\ output = None

Cluster ==
    /\ output = None
    /\ output' = Some(clusterLocations(input, thresholdKm))
    /\ UNCHANGED <<store, mapVars, tabs, input, thresholdKm>>

NextCluster == Cluster

SpecCluster == InitCluster /\ [][NextCluster]_vars

\* the (cluster, member) positions of the output that hold the record with this id
PlacesOf(id) ==
    { <<k, m>> \in (DOMAIN output[1]) \X (1..MaxLen + 1) :
        m \in DOMAIN output[1][k].submissions
        /\ output[1][k].submissions[m].id = id }

\* C1: the clusters returned by clusterLocations partition the input: every
\* input record is a member of exactly one cluster, every member is an input
\* record, and the counts of the clusters add up to the input length.
C1_Partition ==
    output # None =>
        /\ \A i \in DOMAIN input : Cardinality(PlacesOf(input[i].id)) = 1
        /\ \A k \in DOMAIN output[1] :
              \A m \in DOMAIN output[1][k].submissions :
                  \E i \in DOMAIN input : output[1][k].submissions[m] = input[i]
        /\ SumSeq([k \in DOMAIN output[1] |-> output[1][k].count]) = Len(input)

\* C1 witness: a pass over three records that absorbed one and left one alone
C1_Witness ==
    /\ output # None
    /\ Len(input) = 3
    /\ Len(output[1]) = 2
    /\ \E k \in DOMAIN output[1] : output[1][k].count = 2


(***************************************************************************)
(* MapSection: the viewport query coordinator.                             *)
(***************************************************************************)
otherMapVars == <<store, tabs, input, thresholdKm, output>>

\* the start of fetchSubmissionsInBounds, up to await getDocs(q) (lines 129-162),
\* without the isFetchingRef test
fetchSubmissionsInBoundsUnguarded(bounds, by) ==
    IF bounds = None
    THEN /\ lastFetch' = [by |-> by, result |-> "dropped"]
         /\ UNCHANGED <<isFetchingRef, loadingData, inflight>>
    ELSE /\ isFetchingRef' = TRUE
         /\ loadingData' = TRUE
         /\ inflight' = Append(inflight,
                [bounds |-> bounds[1], by |-> by, storeLen |-> Len(store'),
                 shownAtStart |-> [submissions |-> submissions, clusters |-> clusters]])
         /\ lastFetch' = [by |-> by, result |-> "issued"]

\* the start of fetchSubmissionsInBounds, up to await getDocs(q) (lines 129-162);
\* the query is noted with what is stored and shown at that moment
fetchSubmissionsInBounds(bounds, by) ==
    IF bounds = None \/ isFetchingRef
    THEN /\ lastFetch' = [by |-> by, result |-> "dropped"]
         /\ UNCHANGED <<isFetchingRef, loadingData, inflight>>
    ELSE /\ isFetchingRef' = TRUE
         /\ loadingData' = TRUE
         /\ inflight' = Append(inflight,
                [bounds |-> bounds[1], by |-> by, storeLen |-> Len(store'),
                 shownAtStart |-> [submissions |-> submissions, clusters |-> clusters]])
         /\ lastFetch' = [by |-> by, result |-> "issued"]

NoFetch(by) ==
    /\ lastFetch' = [by |-> by, result |-> "none"]
    /\ UNCHANGED <<isFetchingRef, loadingData, inflight>>

\* the queries of the current burst, after a step that may have issued one
\* (the first two are kept)
NoteQuery(queries, bounds) ==
    IF lastFetch'.result = "issued" /\ Len(queries) < 2
    THEN Append(queries, bounds) ELSE queries

\* the refresh effect (lines 200-209), run after a render that changed
\* refreshTrigger or currentBounds; trigger and bounds are the new values
RefreshEffect(trigger, bounds, by) ==
    IF trigger > 0 /\ bounds # None
    THEN /\ fetchTimeoutRef' = None
         /\ fetchSubmissionsInBounds(bounds, by)
    ELSE /\ UNCHANGED fetchTimeoutRef
         /\ NoFetch(by)

\* handleBoundsChange (lines 212-224), called by MapViewportHandler when the
\* bounds changed (lines 45-82), and the effect its setCurrentBounds sets off.
\* Without a refresh so far the effect does nothing and the new timer stays.
handleBoundsChange(bounds) ==
    /\ currentBounds # Some(bounds)
    /\ UNCHANGED otherMapVars
    /\ currentBounds' = Some(bounds)
    /\ IF refreshTrigger > 0
       THEN RefreshEffect(refreshTrigger, Some(bounds), "viewport")
       ELSE /\ fetchTimeoutRef' = Some(bounds)
            /\ NoFetch("viewport")
    /\ sinceChange' = "within"
    /\ burst' = IF sinceChange = "elapsed"
                THEN [calls |-> 1, queries |-> NoteQuery(<<>>, bounds),
                      refreshed |-> FALSE]
                ELSE [burst EXCEPT !.calls = IF @ < 2 THEN @ + 1 ELSE @,
                                   !.queries = NoteQuery(@, bounds)]
    /\ UNCHANGED <<submissions, clusters, firebaseBlocked, refreshTrigger, lastDone>>

\* 600 ms pass without another viewport call: the pending timer, if it was not
\* cleared, runs fetchSubmissionsInBounds(bounds) (lines 221-223)
DebounceElapsed ==
    /\ sinceChange = "within"
    /\ UNCHANGED otherMapVars
    /\ sinceChange' = "elapsed"
    /\ IF fetchTimeoutRef # None
       THEN fetchSubmissionsInBounds(fetchTimeoutRef, "timer")
       ELSE NoFetch("timer")
    /\ fetchTimeoutRef' = None
    /\ burst' = [burst EXCEPT
                    !.queries = IF fetchTimeoutRef # None
                                THEN NoteQuery(@, fetchTimeoutRef[1]) ELSE @]
    /\ UNCHANGED <<submissions, clusters, firebaseBlocked, currentBounds,
                   refreshTrigger, lastDone>>

\* refreshFn (lines 192-194) and the refresh effect it sets off
refreshFn ==
    /\ refreshTrigger' = refreshTrigger + 1
    /\ RefreshEffect(refreshTrigger + 1, currentBounds, "refresh")
    /\ burst' = IF sinceChange = "within" THEN [burst EXCEPT !.refreshed = TRUE]
                ELSE burst
    /\ UNCHANGED <<submissions, clusters, firebaseBlocked, currentBounds,
                   sinceChange, lastDone>>

\* the explicit refresh signal, from outside the component
RefreshSignal ==
    /\ refreshTrigger < MaxRefresh
    /\ UNCHANGED otherMapVars
    /\ refreshFn

\* getDocs resolves: the rest of the try block and finally (lines 162-176, 184-186)
FetchSucceeds ==
    \E k \in DOMAIN inflight :
        LET q == inflight[k]
            data == FetchedData(store, q.bounds)
        IN  /\ submissions' = data
            /\ clusters' = ClusteredView(data)
            /\ loadingData' = FALSE
            /\ firebaseBlocked' = FALSE
            /\ isFetchingRef' = FALSE
            /\ inflight' = [i \in 1..Len(inflight) - 1 |->
                              IF i < k THEN inflight[i] ELSE inflight[i + 1]]
            /\ lastDone' = Some([bounds |-> q.bounds, by |-> q.by,
                                 storeLen |-> q.storeLen, outcome |-> "ok",
                                 latest |-> currentBounds,
                                 shownAtStart |-> q.shownAtStart, error |-> None])
            /\ lastFetch' = [by |-> "done", result |-> "none"]
            /\ UNCHANGED <<currentBounds, refreshTrigger, fetchTimeoutRef,
                           sinceChange, burst>>
            /\ UNCHANGED otherMapVars

\* getDocs rejects, and the catch block clears what is shown
FetchFailsClearing(error) ==
    \E k \in DOMAIN inflight :
        LET q == inflight[k]
        IN  /\ submissions' = <<>>
            /\ clusters' = <<>>
            /\ loadingData' = FALSE
            /\ firebaseBlocked' = IF IsBlockedError(error) THEN TRUE
                                  ELSE firebaseBlocked
            /\ isFetchingRef' = FALSE
            /\ inflight' = [i \in 1..Len(inflight) - 1 |->
                              IF i < k THEN inflight[i] ELSE inflight[i + 1]]
            /\ lastDone' = Some([bounds |-> q.bounds, by |-> q.by,
                                 storeLen |-> q.storeLen, outcome |-> "failed",
                                 latest |-> currentBounds,
                                 shownAtStart |-> q.shownAtStart,
                                 error |-> Some(error)])
            /\ lastFetch' = [by |-> "done", result |-> "none"]
            /\ UNCHANGED <<currentBounds, refreshTrigger,
                           fetchTimeoutRef, sinceChange, burst>>
            /\ UNCHANGED otherMapVars

\* getDocs rejects, and isFetchingRef is not reset (no finally block)
FetchFailsKeepingGuard(error) ==
    \E k \in DOMAIN inflight :
        LET q == inflight[k]
        IN  /\ loadingData' = FALSE
            /\ firebaseBlocked' = IF IsBlockedError(error) THEN TRUE
                                  ELSE firebaseBlocked
            /\ inflight' = [i \in 1..Len(inflight) - 1 |->
                              IF i < k THEN inflight[i] ELSE inflight[i + 1]]
            /\ lastDone' = Some([bounds |-> q.bounds, by |-> q.by,
                                 storeLen |-> q.storeLen, outcome |-> "failed",
                                 latest |-> currentBounds,
                                 shownAtStart |-> q.shownAtStart,
                                 error |-> Some(error)])
            /\ lastFetch' = [by |-> "done", result |-> "none"]
            /\ UNCHANGED <<submissions, clusters, currentBounds, refreshTrigger,
                           fetchTimeoutRef, sinceChange, burst, isFetchingRef>>
            /\ UNCHANGED otherMapVars

\* getDocs rejects: catch and finally (lines 177-186)
FetchFails(error) ==
    \E k \in DOMAIN inflight :
        LET q == inflight[k]
        IN  /\ loadingData' = FALSE
            /\ firebaseBlocked' = IF IsBlockedError(error) THEN TRUE
                                  ELSE firebaseBlocked
            /\ isFetchingRef' = FALSE
            /\ inflight' = [i \in 1..Len(inflight) - 1 |->
                              IF i < k THEN inflight[i] ELSE inflight[i + 1]]
            /\ lastDone' = Some([bounds |-> q.bounds, by |-> q.by,
                                 storeLen |-> q.storeLen, outcome |-> "failed",
                                 latest |-> currentBounds,
                                 shownAtStart |-> q.shownAtStart,
                                 error |-> Some(error)])
            /\ lastFetch' = [by |-> "done", result |-> "none"]
            /\ UNCHANGED <<submissions, clusters, currentBounds, refreshTrigger,
                           fetchTimeoutRef, sinceChange, burst>>
            /\ UNCHANGED otherMapVars

(***************************************************************************)
(* SpecView: the coordinator over a store that does not change.            *)
(***************************************************************************)
East1 == [lat |-> 0, lon |-> 10]
East2 == [lat |-> 0, lon |-> 15]      \* 55 m east of East1
East3 == [lat |-> 0, lon |-> 30]      \* 222 m east of East1

ViewWest == [south |-> -10, west |-> 0, north |-> 10, east |-> 20]
ViewEast == [south |-> -10, west |-> 20, north |-> 10, east |-> 40]
Viewports == {ViewWest, ViewEast}

\* a record as the documented writer stores it: with its precision-7 geohash
Indexed(id, userId, mode, location, selectedTiles, timestamp) ==
    [id |-> id, userId |-> userId, mode |-> mode, location |-> location,
     selectedTiles |-> selectedTiles, timestamp |-> timestamp,
     geohash |-> Some(encodeGeohash(location.lat, location.lon, 7))]

ViewStore ==
    << Indexed(1, "u2", "Complaint", East1, [tile1 |-> TRUE], 99),
       Indexed(2, "u2", "Compliment", East3, [tile2 |-> TRUE], 98),
       Indexed(3, "u3", "Compliment", East2, [tile1 |-> TRUE, tile2 |-> FALSE], 97) >>

FetchErrors ==
    { [code |-> "unavailable", message |-> Some({"client", "offline"})],
      [code |-> "permission-denied", message |-> Some({"insufficient", "permissions"})],
      [code |-> "", message |-> Some({"network", "error"})],
      [code |-> "", message |-> None] }

InitView ==
    /\ store = ViewStore
    /\ MapMounted
    /\ NoTabs
    /\ NoClustering

NextView ==
    \/ \E bounds \in Viewports : handleBoundsChange(bounds)
    \/ DebounceElapsed
    \/ RefreshSignal
    \/ FetchSucceeds
    \/ \E error \in FetchErrors : FetchFails(error)

SpecView == InitView /\ [][NextView]_vars

(***************************************************************************)
(* SpecQuery: the range query and the client-side filter, over every store *)
(* drawn from records in, on the edge of, and outside the viewports.       *)
(***************************************************************************)
OnEdge == [lat |-> 0, lon |-> 20]     \* on the east edge of ViewWest
North  == [lat |-> 5, lon |-> 10]     \* inside ViewWest, north of the equator
South  == [lat |-> -5, lon |-> 10]    \* inside ViewWest, south of the equator

\* 0.01 degree wide: a radius of 1.11 km, beyond the first row of the table
ViewWide == [south |-> -50, west |-> 0, north |-> 50, east |-> 100]

QueryViewports == {ViewWest, ViewEast, ViewWide}

\* the last record is older than the retention window
QueryRecords ==
    << Indexed(1, "u2", "Complaint", East1, [tile1 |-> TRUE], 99),
       Indexed(2, "u2", "Compliment", OnEdge, [tile2 |-> TRUE], 98),
       Indexed(3, "u3", "Complaint", North, [tile1 |-> TRUE], 97),
       Indexed(4, "u3", "Compliment", East3, [tile1 |-> TRUE, tile2 |-> TRUE], 96),
       Indexed(5, "u2", "Complaint", South, [tile3 |-> TRUE], 5) >>

\* the stores that hold some of the records, in the order they were written
QueryStores ==
    { LET Kept(d) == d.id \in S IN SelectSeq(QueryRecords, Kept) :
        S \in SUBSET (1..Len(QueryRecords)) }

InitQuery ==
    /\ store \in QueryStores
    /\ MapMounted
    /\ NoTabs
    /\ NoClustering

NextQuery ==
    \/ \E bounds \in QueryViewports : handleBoundsChange(bounds)
    \/ DebounceElapsed
    \/ FetchSucceeds

SpecQuery == InitQuery /\ [][NextQuery]_vars

(***************************************************************************)
(* SpecRange: getGeohashRange and getGeohashRangesForBounds applied to     *)
(* drawn arguments, with a key to hold against the range returned.         *)
(* input is [call, center, radiusKm, otherRadiusKm, bounds, key]; a call   *)
(* of getGeohashRange is made for radiusKm and again for otherRadiusKm.    *)
(***************************************************************************)
MaxPrecision == 9     \* longest key held against a range

FarAway == [lat |-> 450000, lon |-> 900000]

RangeCenters == {PointA, East1, North}

\* both sides of every threshold of the table of getGeohashRange
RangeRadii == {0, 200, 201, 1500, 1501, 12000, 12001, 50000, 50001}

\* keys as the writer derives them, at every length
RangeKeys ==
    { encodeGeohash(point.lat, point.lon, precision) :
        point \in {PointA, East1, North, South, East3, FarAway},
        precision \in 1..MaxPrecision }

InitRange ==
    /\ store = <<>>
    /\ MapMounted
    /\ NoTabs
    /\ thresholdKm = 0
    /\ output = None
    /\ \E key \in RangeKeys :
          \/ \E center \in RangeCenters, r1 \in RangeRadii, r2 \in RangeRadii :
                input = [call |-> "getGeohashRange", center |-> center,
                         radiusKm |-> r1, otherRadiusKm |-> r2,
                         bounds |-> ViewWest, key |-> key]
          \/ \E bounds \in QueryViewports :
                input = [call |-> "getGeohashRangesForBounds", center |-> PointA,
                         radiusKm |-> 0, otherRadiusKm |-> 0,
                         bounds |-> bounds, key |-> key]

CallGetGeohashRange ==
    /\ output = None
    /\ input.call = "getGeohashRange"
    /\ output' = Some([range |-> getGeohashRange(input.center.lat, input.center.lon,
                                                 input.radiusKm),
                       otherRange |-> getGeohashRange(input.center.lat,
                                                      input.center.lon,
                                                      input.otherRadiusKm)])
    /\ UNCHANGED <<store, mapVars, tabs, input, thresholdKm>>

CallGetGeohashRangesForBounds ==
    /\ output = None
    /\ input.call = "getGeohashRangesForBounds"
    /\ LET ranges == getGeohashRangesForBounds(getSouthWest(input.bounds),
                                               getNorthEast(input.bounds))
       IN  output' = Some([range |-> ranges[1], otherRange |-> ranges[1]])
    /\ UNCHANGED <<store, mapVars, tabs, input, thresholdKm>>

NextRange ==
    \/ CallGetGeohashRange
    \/ CallGetGeohashRangesForBounds

SpecRange == InitRange /\ [][NextRange]_vars

(***************************************************************************)
(* SpecDistance: calculateDistance applied to a pair of points, both ways  *)
(* round and to the first point with itself.  input is [a, b, rounding].   *)
(***************************************************************************)
FarNorth == [lat |-> 510579, lon |-> -323125]
FarSouth == [lat |-> -510579, lon |-> 1476875]    \* the antipode of FarNorth

NearPoints == {PointA, PointB, PointC, East1, East3, North, South}

FarPoints == {FarNorth, FarSouth}

Roundings == {-1, 0, 1}

InitDistance ==
    /\ store = <<>>
    /\ MapMounted
    /\ NoTabs
    /\ thresholdKm = 0
    /\ output = None
    /\ \E rounding \in Roundings :
          \/ \E a \in NearPoints, b \in NearPoints :
                input = [a |-> a, b |-> b, rounding |-> rounding]
          \/ \E a \in FarPoints, b \in FarPoints :
                input = [a |-> a, b |-> b, rounding |-> rounding]

Distance ==
    /\ output = None
    /\ LET a == input.a
           b == input.b
       IN  output' = Some(
               [ab |-> calculateDistanceDouble(a.lat, a.lon, b.lat, b.lon, input.rounding),
                ba |-> calculateDistanceDouble(b.lat, b.lon, a.lat, a.lon, input.rounding),
                aa |-> calculateDistanceDouble(a.lat, a.lon, a.lat, a.lon, input.rounding)])
    /\ UNCHANGED <<store, mapVars, tabs, input, thresholdKm>>

NextDistance == Distance

SpecDistance == InitDistance /\ [][NextDistance]_vars


(***************************************************************************)
(* App: handleSubmit.  tabs[t] is the App component of browser tab t: the  *)
(* position of its handleSubmit execution (pc), the state the execution    *)
(* captured (location, selectedTiles, mode), isSubmitting, and what the    *)
(* execution computed and reported.  The tabs of one browser share the     *)
(* userId kept in localStorage.  The MapSection modelled above is the one  *)
(* of MapTab.                                                              *)
(***************************************************************************)
MapTab == "tabA"

UserOfBrowser == "u1"

getUserId(t) == UserOfBrowser

IdleTab ==
    [pc |-> "idle", location |-> None, selectedTiles |-> <<>>, mode |-> "Complaint",
     isSubmitting |-> FALSE, readLen |-> None, duplicateCategories |-> <<>>,
     alert |-> "none", written |-> None]

isValidLatitude(lat) == lat >= -LatSpan /\ lat <= LatSpan

isValidLongitude(lon) == lon >= -LonSpan /\ lon <= LonSpan

\* the keys that match /^tile\d+$/, among the keys the model uses
MatchesTilePattern(key) == key \in {"tile1", "tile2", "tile3", "tile10"}

\* validateSelectedTiles without the test of the key pattern
validateSelectedTilesAnyKey(tiles) ==
    /\ Cardinality(DOMAIN tiles) # 0
    /\ Cardinality(DOMAIN tiles) <= 20
    /\ \A key \in DOMAIN tiles : tiles[key] \in BOOLEAN

validateSelectedTiles(tiles) ==
    /\ Cardinality(DOMAIN tiles) # 0
    /\ Cardinality(DOMAIN tiles) <= 20
    /\ \A key \in DOMAIN tiles : MatchesTilePattern(key) /\ tiles[key] \in BOOLEAN

RECURSIVE SeqOfSet(_)
SeqOfSet(S) ==
    IF S = {} THEN <<>>
    ELSE LET x == CHOOSE y \in S : TRUE IN <<x>> \o SeqOfSet(S \ {x})

\* selectedCategoryIds (lines 214-216)
SelectedCategoryIds(tiles) ==
    LET keys == SeqOfSet(SelectedOf(tiles))
    IN  [k \in DOMAIN keys |-> getCategoryId(keys[k])]

\* existingSubmissions built from the records in Complaint mode only
ExistingSubmissionsComplaints(snapshot) ==
    LET IsComplaint(d) == d.mode = "Complaint"
        complaints == SelectSeq(snapshot, IsComplaint)
    IN  [k \in DOMAIN complaints |->
            [categories |-> SelectedCategoryIds(complaints[k].selectedTiles),
             location |-> complaints[k].location]]

\* existingSubmissions built from the query snapshot (lines 238-253)
ExistingSubmissions(snapshot) ==
    [k \in DOMAIN snapshot |->
        [categories |-> SelectedCategoryIds(snapshot[k].selectedTiles),
         location |-> snapshot[k].location]]

\* hasDuplicate, without the distance test
HasDuplicateAnywhere(categoryId, existingSubmissions, location) ==
    \E k \in DOMAIN existingSubmissions :
        categoryId \in Range(existingSubmissions[k].categories)

\* hasDuplicate with the radius of the clustering (0.05 km) in place of 0.1 km
HasDuplicateClusterRadius(categoryId, existingSubmissions, location) ==
    \E k \in DOMAIN existingSubmissions :
        LET sub == existingSubmissions[k]
        IN  /\ categoryId \in Range(sub.categories)
            /\ calculateDistance(location.lat, location.lon,
                                 sub.location.lat, sub.location.lon)
                   <= ClusterThreshold

\* hasDuplicate (lines 259-271)
HasDuplicate(categoryId, existingSubmissions, location) ==
    \E k \in DOMAIN existingSubmissions :
        LET sub == existingSubmissions[k]
        IN  /\ categoryId \in Range(sub.categories)
            /\ calculateDistance(location.lat, location.lon,
                                 sub.location.lat, sub.location.lon)
                   <= DuplicateThreshold

\* duplicateCategories (lines 256-276)
DuplicateCategories(selectedCategoryIds, existingSubmissions, location) ==
    LET IsDup(categoryId) == HasDuplicate(categoryId, existingSubmissions, location)
    IN  SelectSeq(selectedCategoryIds, IsDup)

\* the documents of the history query: where('userId', '==', userId)
HistorySnapshot(docs, userId) ==
    LET Mine(d) == d.userId = userId
    IN  SelectSeq(docs, Mine)

\* dataToStore (lines 300-310), with the id the store gives it
DataToStore(tab, userId, id) ==
    [id |-> id, userId |-> userId, mode |-> tab.mode, location |-> tab.location[1],
     selectedTiles |-> tab.selectedTiles, timestamp |-> Today, geohash |-> None]

\* the executions under way
Busy == {t \in DOMAIN tabs : tabs[t].pc # "idle"}

\* handleSubmit from the click to await ensureAuth() (lines 190-227); a form is
\* the state the click finds: [location, selectedTiles, mode]
SubmitStart(t, form) ==
    /\ tabs[t].pc = "idle"
    /\ Len(store) + Cardinality(Busy) < MaxStore
    /\ LET seen == [IdleTab EXCEPT !.location = form.location,
                                   !.selectedTiles = form.selectedTiles,
                                   !.mode = form.mode]
       IN  tabs' = [tabs EXCEPT ![t] =
               IF form.location = None
               THEN [seen EXCEPT !.alert = "locationNotAvailable"]
               ELSE IF ~isValidLatitude(form.location[1].lat)
                       \/ ~isValidLongitude(form.location[1].lon)
               THEN [seen EXCEPT !.alert = "invalidCoordinates"]
               ELSE IF ~validateSelectedTiles(form.selectedTiles)
               THEN [seen EXCEPT !.alert = "selectAtLeastOne"]
               ELSE IF Len(SelectedCategoryIds(form.selectedTiles)) = 0
               THEN [seen EXCEPT !.alert = "selectAtLeastOne"]
               ELSE [seen EXCEPT !.isSubmitting = TRUE, !.pc = "auth"]]
    /\ UNCHANGED <<store, mapVars, clusterVars>>

\* the catch and finally blocks (lines 323-331)
Caught(tab, code) ==
    [tab EXCEPT !.pc = "idle", !.isSubmitting = FALSE,
                !.alert = IF code = "permission-denied" THEN "permissionDenied"
                          ELSE "submitError"]

\* ensureAuth() resolves: the history query is sent (lines 229-235)
AuthSucceeds(t) ==
    /\ tabs[t].pc = "auth"
    /\ tabs' = [tabs EXCEPT ![t].pc = "history"]
    /\ UNCHANGED <<store, mapVars, clusterVars>>

\* a rejected history lookup taken as an empty history: the execution goes on
\* to addDoc
SubmitFailsAsEmpty(t, code) ==
    /\ tabs[t].pc \in {"auth", "history", "write"}
    /\ tabs' = [tabs EXCEPT ![t] = IF @.pc = "history" THEN [@ EXCEPT !.pc = "write"]
                                   ELSE Caught(@, code)]
    /\ UNCHANGED <<store, mapVars, clusterVars>>

\* ensureAuth(), getDocs or addDoc rejects
SubmitFails(t, code) ==
    /\ tabs[t].pc \in {"auth", "history", "write"}
    /\ tabs' = [tabs EXCEPT ![t] = Caught(@, code)]
    /\ UNCHANGED <<store, mapVars, clusterVars>>

\* getDocs resolves, and only a submission all of whose categories collide is
\* rejected
HistorySucceedsLenient(t) ==
    /\ tabs[t].pc = "history"
    /\ LET tab == tabs[t]
           existingSubmissions ==
               ExistingSubmissions(HistorySnapshot(store, getUserId(t)))
           selectedCategoryIds == SelectedCategoryIds(tab.selectedTiles)
           duplicateCategories ==
               DuplicateCategories(selectedCategoryIds, existingSubmissions,
                                   tab.location[1])
       IN  tabs' = [tabs EXCEPT ![t] =
               IF Len(duplicateCategories) = Len(selectedCategoryIds)
               THEN [tab EXCEPT !.pc = "idle", !.isSubmitting = FALSE,
                                !.readLen = Some(Len(store)),
                                !.duplicateCategories = duplicateCategories,
                                !.alert = "alreadySubmitted"]
               ELSE [tab EXCEPT !.pc = "write",
                                !.readLen = Some(Len(store)),
                                !.duplicateCategories = duplicateCategories]]
    /\ UNCHANGED <<store, mapVars, clusterVars>>

\* getDocs resolves: the duplicate check, then either the rejection or the
\* call of addDoc (lines 235-312)
HistorySucceeds(t) ==
    /\ tabs[t].pc = "history"
    /\ LET tab == tabs[t]
           existingSubmissions ==
               ExistingSubmissions(HistorySnapshot(store, getUserId(t)))
           duplicateCategories ==
               DuplicateCategories(SelectedCategoryIds(tab.selectedTiles),
                                   existingSubmissions, tab.location[1])
       IN  tabs' = [tabs EXCEPT ![t] =
               IF Len(duplicateCategories) > 0
               THEN [tab EXCEPT !.pc = "idle", !.isSubmitting = FALSE,
                                !.readLen = Some(Len(store)),
                                !.duplicateCategories = duplicateCategories,
                                !.alert = "alreadySubmitted"]
               ELSE [tab EXCEPT !.pc = "write",
                                !.readLen = Some(Len(store)),
                                !.duplicateCategories = duplicateCategories]]
    /\ UNCHANGED <<store, mapVars, clusterVars>>

\* addDoc resolves: the record is stored, the map is refreshed, the form is
\* reset (lines 312-322, 329-331)
WriteSucceeds(t) ==
    /\ tabs[t].pc = "write"
    /\ LET doc == DataToStore(tabs[t], getUserId(t), Len(store) + 1)
       IN  /\ store' = Append(store, doc)
           /\ tabs' = [tabs EXCEPT ![t].pc = "idle", ![t].isSubmitting = FALSE,
                                   ![t].alert = "dataSubmitted",
                                   ![t].written = Some(doc.id)]
    /\ IF t = MapTab THEN refreshFn ELSE UNCHANGED mapVars
    /\ UNCHANGED clusterVars

(***************************************************************************)
(* SpecSubmit: two tabs of one browser submitting, over a store that holds *)
(* earlier records.                                                        *)
(***************************************************************************)
SubmitTabs == {"tabA", "tabB"}

Forms ==
    { [location |-> Some(East1), selectedTiles |-> [tile1 |-> TRUE], mode |-> "Complaint"],
      [location |-> Some(East2), selectedTiles |-> [tile1 |-> TRUE, tile2 |-> TRUE],
       mode |-> "Compliment"],
      [location |-> Some(East3), selectedTiles |-> [tile1 |-> TRUE], mode |-> "Complaint"],
      [location |-> Some(East1), selectedTiles |-> [tile1 |-> FALSE, tile2 |-> TRUE],
       mode |-> "Compliment"],
      [location |-> None, selectedTiles |-> [tile1 |-> TRUE], mode |-> "Complaint"],
      [location |-> Some(East1), selectedTiles |-> [tile1 |-> FALSE], mode |-> "Complaint"],
      [location |-> Some(East1), selectedTiles |-> <<>>, mode |-> "Complaint"] }

SubmitErrors == {"permission-denied", "unavailable"}

\* what the store may hold at the start: nothing, or a record of another user
SubmitStores ==
    { <<>>,
      << Indexed(1, "u2", "Complaint", East1, [tile1 |-> TRUE], 99) >> }

InitSubmit ==
    /\ store \in SubmitStores
    /\ MapMounted
    /\ tabs = [t \in SubmitTabs |-> IdleTab]
    /\ NoClustering

NextSubmit ==
    \/ \E t \in DOMAIN tabs, form \in Forms : SubmitStart(t, form)
    \/ \E t \in DOMAIN tabs : AuthSucceeds(t)
    \/ \E t \in DOMAIN tabs : HistorySucceeds(t)
    \/ \E t \in DOMAIN tabs : WriteSucceeds(t)
    \/ \E t \in DOMAIN tabs, code \in SubmitErrors : SubmitFails(t, code)

SpecSubmit == InitSubmit /\ [][NextSubmit]_vars

(***************************************************************************)
(* SpecSerial: one tab submitting again and again, over a store that is    *)
(* empty or holds a record of the same submitter from long ago.  The       *)
(* executions of one tab never overlap: the submit button is disabled      *)
(* while isSubmitting (App.jsx line 412).                                  *)
(***************************************************************************)
TooFarNorth == [lat |-> LatSpan + 1, lon |-> 10]
TooFarEast  == [lat |-> 0, lon |-> LonSpan + 1]

\* a record of this browser's submitter, older than the retention window
OldOwnRecord == Indexed(1, UserOfBrowser, "Complaint", East1, [tile1 |-> TRUE], 5)

SerialStores == { <<>>, <<OldOwnRecord>> }

SerialForms ==
    { [location |-> Some(East1), selectedTiles |-> [tile1 |-> TRUE], mode |-> "Complaint"],
      [location |-> Some(East1), selectedTiles |-> [tile1 |-> TRUE], mode |-> "Compliment"],
      [location |-> Some(East2), selectedTiles |-> [tile1 |-> TRUE, tile2 |-> TRUE],
       mode |-> "Compliment"],
      [location |-> Some(East3), selectedTiles |-> [tile1 |-> TRUE], mode |-> "Complaint"],
      [location |-> Some(East1), selectedTiles |-> [tile1 |-> FALSE, tile2 |-> TRUE],
       mode |-> "Complaint"],
      [location |-> None, selectedTiles |-> [tile1 |-> TRUE], mode |-> "Complaint"],
      [location |-> Some(TooFarNorth), selectedTiles |-> [tile1 |-> TRUE],
       mode |-> "Complaint"],
      [location |-> Some(TooFarEast), selectedTiles |-> [tile1 |-> TRUE],
       mode |-> "Complaint"],
      [location |-> Some(East1), selectedTiles |-> [tile1 |-> FALSE], mode |-> "Complaint"],
      [location |-> Some(East1), selectedTiles |-> <<>>, mode |-> "Complaint"],
      [location |-> Some(East1), selectedTiles |-> [roads |-> TRUE], mode |-> "Complaint"] }

InitSerial ==
    /\ store \in SerialStores
    /\ MapMounted
    /\ tabs = [t \in {MapTab} |-> IdleTab]
    /\ NoClustering

NextSerial ==
    \/ \E t \in DOMAIN tabs, form \in SerialForms : SubmitStart(t, form)
    \/ \E t \in DOMAIN tabs : AuthSucceeds(t)
    \/ \E t \in DOMAIN tabs : HistorySucceeds(t)
    \/ \E t \in DOMAIN tabs : WriteSucceeds(t)
    \/ \E t \in DOMAIN tabs, code \in SubmitErrors : SubmitFails(t, code)

SpecSerial == InitSerial /\ [][NextSerial]_vars

(***************************************************************************)
(* Spec: the application of one tab, its form and its map, over the store. *)
(***************************************************************************)
AppStore ==
    << Indexed(1, "u2", "Complaint", East1, [tile1 |-> TRUE], 99),
       Indexed(2, "u2", "Compliment", East3, [tile2 |-> TRUE], 98) >>

AppForms ==
    { [location |-> Some(East2), selectedTiles |-> [tile1 |-> TRUE], mode |-> "Complaint"],
      [location |-> Some(East3), selectedTiles |-> [tile1 |-> FALSE, tile2 |-> TRUE],
       mode |-> "Compliment"] }

AppFetchErrors == { [code |-> "unavailable", message |-> Some({"client", "offline"})] }

Init ==
    /\ store = AppStore
    /\ MapMounted
    /\ tabs = [t \in {MapTab} |-> IdleTab]
    /\ NoClustering

Next ==
    \/ \E bounds \in Viewports : handleBoundsChange(bounds)
    \/ DebounceElapsed
    \/ FetchSucceeds
    \/ \E error \in AppFetchErrors : FetchFails(error)
    \/ \E t \in DOMAIN tabs, form \in AppForms : SubmitStart(t, form)
    \/ \E t \in DOMAIN tabs : AuthSucceeds(t)
    \/ \E t \in DOMAIN tabs : HistorySucceeds(t)
    \/ \E t \in DOMAIN tabs : WriteSucceeds(t)
    \/ \E t \in DOMAIN tabs : SubmitFails(t, "unavailable")

Spec == Init /\ [][Next]_vars

\* C2: when two or more viewport calls came within one debounce window (and no
\* refresh signal came with them), then once the window has passed exactly one
\* range query was issued since the burst began, for the bounds of the last call.
C2_OneQueryPerBurst ==
    (sinceChange = "elapsed" /\ burst.calls >= 2 /\ ~burst.refreshed)
        => burst.queries = <<currentBounds[1]>>

\* C3: a range query whose result is written with setSubmissions queried the
\* latest bounds reported to handleBoundsChange.
C3_LatestViewportWins ==
    (lastDone # None /\ lastDone[1].outcome = "ok")
        => lastDone[1].latest = Some(lastDone[1].bounds)

\* C4: at most one range query is in flight; a call of fetchSubmissionsInBounds
\* while one is outstanding issues none.
C4_OneInFlight == Len(inflight) <= 1

\* C4 witness: fetchSubmissionsInBounds was called while a query was in flight
C4_Witness ==
    /\ lastFetch.result = "dropped"
    /\ Len(inflight) = 1
    /\ isFetchingRef

\* C7: after a failed range query the submissions and the clusters are what
\* they were when the query started.
C7_FailureKeepsData ==
    (lastDone # None /\ lastDone[1].outcome = "failed")
        => /\ submissions = lastDone[1].shownAtStart.submissions
           /\ clusters = lastDone[1].shownAtStart.clusters

\* C7 witness: a query failed while fetched records were on display
C7_Witness ==
    /\ lastDone # None
    /\ lastDone[1].outcome = "failed"
    /\ Len(submissions) > 0
    /\ Len(clusters) > 0
    /\ ~loadingData

\* C8: every failed range query leaves firebaseBlocked true.
C8_FailureSurfaced ==
    (lastDone # None /\ lastDone[1].outcome = "failed") => firebaseBlocked

\* C9: a refresh signal that arrives while the current viewport is known
\* issues a range query in that very step.
C9_RefreshFetches ==
    (lastFetch.by = "refresh" /\ currentBounds # None)
        => lastFetch.result = "issued"


\* the canonical categories of the selected tiles of a record or form
CategoriesOf(selectedTiles) == {getCategoryId(x) : x \in SelectedOf(selectedTiles)}

\* two points at most 0.1 km apart, from the squared distance in cm^2
Within100m(a, b) ==
    CmSqPerUnitSq * ((a.lat - b.lat) * (a.lat - b.lat) + (a.lon - b.lon) * (a.lon - b.lon))
        <= 10000 * 10000

\* C5: the duplicate check returns exactly the selected canonical categories
\* that some record of the same submitter, among those stored when the history
\* was read, holds at most 0.1 km from the new location.
C5_DuplicateSet ==
    \A t \in DOMAIN tabs :
        tabs[t].readLen # None =>
            Range(tabs[t].duplicateCategories) =
                { c \in CategoriesOf(tabs[t].selectedTiles) :
                    \E i \in 1..tabs[t].readLen[1] :
                        /\ store[i].userId = UserOfBrowser
                        /\ c \in CategoriesOf(store[i].selectedTiles)
                        /\ Within100m(store[i].location, tabs[t].location[1]) }

\* C5 witness: of two selected categories one collided and the other did not,
\* while a record of another user lay just as near
C5_Witness ==
    \E t \in DOMAIN tabs :
        /\ tabs[t].readLen # None
        /\ tabs[t].duplicateCategories = <<"roads">>
        /\ CategoriesOf(tabs[t].selectedTiles) = {"roads", "garbage"}
        /\ \E i \in 1..tabs[t].readLen[1] : store[i].userId # UserOfBrowser

\* the state part of C6
C6_Rejected ==
    \A t \in DOMAIN tabs :
        /\ (tabs[t].readLen # None /\ Len(tabs[t].duplicateCategories) > 0)
              => /\ tabs[t].pc = "idle"
                 /\ tabs[t].alert = "alreadySubmitted"
                 /\ tabs[t].written = None
        /\ tabs[t].written # None
              => /\ tabs[t].duplicateCategories = <<>>
                 /\ tabs[t].alert = "dataSubmitted"

\* the step part of C6
C6_WritesOne ==
    /\ \A t \in DOMAIN tabs :
          (tabs[t].pc = "write" /\ tabs'[t].alert = "dataSubmitted")
              => Len(store') = Len(store) + 1
    /\ store' # store
          => \E t \in DOMAIN tabs :
                /\ tabs[t].pc = "write"
                /\ tabs[t].duplicateCategories = <<>>
                /\ tabs'[t].alert = "dataSubmitted"
                /\ store' = Append(store, store'[Len(store')])

\* C6: an execution of handleSubmit that found duplicate categories ends
\* without a write; one that found none and met no failure writes one record;
\* nothing else changes the store.
C6_RejectOrWriteOnce == [](C6_Rejected) /\ [][C6_WritesOne]_vars

\* C6 witness: a submission rejected although one of its categories did not
\* collide, and one that went through
C6_Witness ==
    /\ \E t \in DOMAIN tabs :
          /\ tabs[t].alert = "alreadySubmitted"
          /\ Len(tabs[t].duplicateCategories) = 1
          /\ Cardinality(CategoriesOf(tabs[t].selectedTiles)) = 2
    /\ \E t \in DOMAIN tabs : tabs[t].written # None

\* C10: when the range query issued by the refresh after a write is answered,
\* and the viewport is still the one queried, the submissions shown hold the
\* record written, if it lies inside the viewport.
C10_OwnSubmissionShown ==
    (lastDone # None /\ lastDone[1].outcome = "ok" /\ lastDone[1].by = "refresh"
        /\ lastDone[1].latest = Some(lastDone[1].bounds))
    => \A t \in DOMAIN tabs :
          (/\ tabs[t].written # None
           /\ tabs[t].written[1] <= lastDone[1].storeLen
           /\ LET at == store[tabs[t].written[1]].location
                  b == lastDone[1].bounds
              IN  at.lat > b.south /\ at.lat < b.north /\ at.lon > b.west /\ at.lon < b.east)
          => \E k \in DOMAIN submissions : submissions[k].id = tabs[t].written[1]


\* C11: every record handleSubmit has written carries the geohash of its own
\* location (precision 7, the default of encodeGeohash), the field the range
\* query of the map filters on.
C11_WrittenHasGeohash ==
    \A t \in DOMAIN tabs :
        tabs[t].written # None =>
            LET doc == store[tabs[t].written[1]]
            IN  doc.geohash = Some(encodeGeohash(doc.location.lat, doc.location.lon, 7))

\* the error alerts of the catch block
ErrorAlerts == {"permissionDenied", "submitError"}

\* the state part of C12: addDoc is called, and a record is written, only after
\* the history was read
C12_NoWriteUnread ==
    \A t \in DOMAIN tabs :
        (tabs[t].pc = "write" \/ tabs[t].written # None) => tabs[t].readLen # None

\* the step part of C12: a step that takes an execution out of the
\* authentication or the history lookup without the history read is a failure:
\* it ends the execution, reports an error and leaves the store alone
C12_FailureStops ==
    \A t \in DOMAIN tabs :
        (/\ tabs[t].pc \in {"auth", "history"}
         /\ tabs'[t].pc \notin {tabs[t].pc, "history"}
         /\ tabs'[t].readLen = None)
        => /\ tabs'[t].pc = "idle"
           /\ tabs'[t].alert \in ErrorAlerts
           /\ tabs'[t].written = None
           /\ ~tabs'[t].isSubmitting
           /\ store' = store

\* C12: when ensureAuth or the history lookup fails, the execution does not go
\* on as if the history were empty: no record is written and an error alert
\* is shown.
C12_FailedLookupWritesNothing == [](C12_NoWriteUnread) /\ [][C12_FailureStops]_vars

\* C12 witness: the authentication or the history lookup of one tab failed while the other tab's
\* submission went through
C12_Witness ==
    /\ \E t \in DOMAIN tabs :
          /\ tabs[t].pc = "idle"
          /\ tabs[t].alert \in ErrorAlerts
          /\ tabs[t].readLen = None
          /\ tabs[t].location # None
    /\ \E t \in DOMAIN tabs : tabs[t].written # None


\* the sum of f over the finite set S
RECURSIVE SumOver(_, _)
SumOver(f, S) ==
    IF S = {} THEN 0
    ELSE LET x == CHOOSE y \in S : TRUE IN f[x] + SumOver(f, S \ {x})

\* the number of slots of a selectedTiles object whose value is true
SlotsSelected(selectedTiles) ==
    Cardinality({slot \in DOMAIN selectedTiles : selectedTiles[slot] = TRUE})

\* C13: in every cluster returned by clusterLocations the category tallies
\* (complaint + compliment, over all categories) add up to the number of
\* (member, selected slot) pairs of the cluster.
C13_CategoryTally ==
    output # None =>
        \A k \in DOMAIN output[1] :
            LET cluster == output[1][k]
                tally == [c \in DOMAIN cluster.categories |->
                             cluster.categories[c].complaint
                             + cluster.categories[c].compliment]
                slots == [m \in DOMAIN cluster.submissions |->
                             SlotsSelected(cluster.submissions[m].selectedTiles)]
            IN  SumOver(tally, DOMAIN tally) = SumSeq(slots)

\* C13 witness: a cluster of two members, one with two selected slots and one
\* with a slot that is present and not selected, so that the pairs (3) differ
\* from the members (2) and from the slots present (4)
C13_Witness ==
    /\ output # None
    /\ \E k \in DOMAIN output[1] :
          /\ output[1][k].count = 2
          /\ \E m \in DOMAIN output[1][k].submissions :
                output[1][k].submissions[m].selectedTiles
                    = [tile1 |-> TRUE, tile2 |-> TRUE]
          /\ \E m \in DOMAIN output[1][k].submissions :
                output[1][k].submissions[m].selectedTiles
                    = [tile1 |-> TRUE, tile2 |-> FALSE]
          /\ output[1][k].categories["roads"].complaint
             + output[1][k].categories["roads"].compliment = 2

\* the number of members of a cluster with this mode
MembersWithMode(cluster, mode) ==
    Cardinality({m \in DOMAIN cluster.submissions :
                    cluster.submissions[m].mode = mode})

\* C14: in every cluster returned by clusterLocations modes.Complaint and
\* modes.Compliment are the numbers of members with that mode, and the two add
\* up to count.
C14_ModeTally ==
    output # None =>
        \A k \in DOMAIN output[1] :
            LET cluster == output[1][k]
            IN  /\ cluster.modes.Complaint = MembersWithMode(cluster, "Complaint")
                /\ cluster.modes.Compliment = MembersWithMode(cluster, "Compliment")
                /\ cluster.modes.Complaint + cluster.modes.Compliment = cluster.count

\* C14 witness: one cluster of three with one Complaint and two Compliments
C14_Witness ==
    /\ output # None
    /\ \E k \in DOMAIN output[1] :
          /\ output[1][k].count = 3
          /\ output[1][k].modes = [Complaint |-> 1, Compliment |-> 2]

\* C15: in every cluster returned by clusterLocations center.lat and
\* center.lon are the arithmetic means of the latitudes and of the longitudes
\* of all members, and count is the number of members.
C15_CenterIsMean ==
    output # None =>
        \A k \in DOMAIN output[1] :
            LET cluster == output[1][k]
                members == cluster.submissions
                lats == [m \in DOMAIN members |-> members[m].location.lat]
                lons == [m \in DOMAIN members |-> members[m].location.lon]
            IN  /\ cluster.count = Len(members)
                /\ cluster.center.lat.num * Len(members)
                      = SumSeq(lats) * cluster.center.lat.den
                /\ cluster.center.lon.num * Len(members)
                      = SumSeq(lons) * cluster.center.lon.den

\* C15 witness: a cluster of three whose center is neither the seed, nor the
\* last member absorbed, nor the midpoint of the two
C15_Witness ==
    /\ output # None
    /\ \E k \in DOMAIN output[1] :
          LET cluster == output[1][k]
              seed == cluster.submissions[1].location.lon
              last == cluster.submissions[Len(cluster.submissions)].location.lon
          IN  /\ cluster.count = 3
              /\ cluster.center.lon.num # seed * cluster.center.lon.den
              /\ cluster.center.lon.num # last * cluster.center.lon.den
              /\ 2 * cluster.center.lon.num # (seed + last) * cluster.center.lon.den


\* a point inside the rectangle, its edges included
InsideOrOnEdge(point, bounds) ==
    /\ bounds.south <= point.lat /\ point.lat <= bounds.north
    /\ bounds.west <= point.lon /\ point.lon <= bounds.east

\* a point inside the rectangle and on none of its edges
StrictlyInside(point, bounds) ==
    /\ bounds.south < point.lat /\ point.lat < bounds.north
    /\ bounds.west < point.lon /\ point.lon < bounds.east

\* C16, as stated: every submission an answered range query hands to the
\* clustering lies strictly inside the queried viewport rectangle.
C16_StrictlyInside ==
    (lastDone # None /\ lastDone[1].outcome = "ok")
        => /\ \A k \in DOMAIN submissions :
                 StrictlyInside(submissions[k].location, lastDone[1].bounds)
           /\ clusters = ClusteredView(submissions)

\* C16, amended: every submission an answered range query hands to the
\* clustering lies inside the queried viewport rectangle or on its edge:
\* south <= lat <= north and west <= lon <= east.
C16_InsideOrOnEdge ==
    (lastDone # None /\ lastDone[1].outcome = "ok")
        => /\ \A k \in DOMAIN submissions :
                 InsideOrOnEdge(submissions[k].location, lastDone[1].bounds)
           /\ clusters = ClusteredView(submissions)

\* C16 witness: an answered query that shows a record on the edge of its
\* viewport, after the filter dropped a record the range query had returned
C16_Witness ==
    /\ lastDone # None
    /\ lastDone[1].outcome = "ok"
    /\ \E k \in DOMAIN submissions :
          /\ InsideOrOnEdge(submissions[k].location, lastDone[1].bounds)
          /\ ~StrictlyInside(submissions[k].location, lastDone[1].bounds)
    /\ LET b == lastDone[1].bounds
           range == getGeohashRangesForBounds(getSouthWest(b), getNorthEast(b))[1]
       IN  Len(submissions) < Len(QuerySnapshot(store, range))

\* C17: when a range query is answered, every stored record that carries a
\* geohash, is inside the retention window and lies strictly inside the queried
\* viewport has its geohash inside the range derived for the viewport, and is
\* among the submissions shown.
C17_NeverUnderFetches ==
    (lastDone # None /\ lastDone[1].outcome = "ok")
        => LET b == lastDone[1].bounds
               range == getGeohashRangesForBounds(getSouthWest(b), getNorthEast(b))[1]
           IN  \A i \in DOMAIN store :
                  (/\ store[i].geohash # None
                   /\ store[i].timestamp >= Today - RetentionDays
                   /\ StrictlyInside(store[i].location, b))
                  => /\ StrLeq(range.min, store[i].geohash[1])
                     /\ StrLeq(store[i].geohash[1], range.max)
                     /\ \E k \in DOMAIN submissions : submissions[k].id = store[i].id


\* h is a prefix of k
IsPrefix(h, k) == Len(h) <= Len(k) /\ SubSeq(k, 1, Len(h)) = h

\* C18: for the range returned by getGeohashRange or getGeohashRangesForBounds
\* and a key k over the geohash alphabet, min <= k <= max in string order
\* exactly when min is a prefix of k.
C18_RangeIsPrefix ==
    output # None =>
        LET range == output[1].range
            k == input.key
        IN  (StrLeq(range.min, k) /\ StrLeq(k, range.max)) <=> IsPrefix(range.min, k)

\* C18 witness: a key two characters longer than the prefix, with the last
\* character of the alphabet in both places, inside the range
C18_Witness ==
    /\ output # None
    /\ IsPrefix(output[1].range.min, input.key)
    /\ Len(input.key) = Len(output[1].range.min) + 2
    /\ input.key[Len(input.key)] = Base32[Len(Base32)]
    /\ input.key[Len(input.key) - 1] = Base32[Len(Base32)]
    /\ StrLeq(input.key, output[1].range.max)

\* the table of the claim; radiusKm in units of 1e-4 km
C19_Table(radiusKm) ==
    CASE radiusKm <= 200 -> 8
      [] radiusKm > 200 /\ radiusKm <= 1500 -> 7
      [] radiusKm > 1500 /\ radiusKm <= 12000 -> 6
      [] radiusKm > 12000 /\ radiusKm <= 50000 -> 5
      [] radiusKm > 50000 -> 4

\* C19: for one center and radii r1 <= r2 the key of getGeohashRange for r2
\* is no longer than the key for r1, and the key lengths are 8, 7, 6, 5, 4 up
\* to 0.02, 0.15, 1.2, 5 km and beyond.
C19_PrecisionMonotone ==
    (output # None /\ input.call = "getGeohashRange") =>
        /\ input.radiusKm <= input.otherRadiusKm
              => Len(output[1].otherRange.min) <= Len(output[1].range.min)
        /\ Len(output[1].range.min) = C19_Table(input.radiusKm)
        /\ Len(output[1].range.max) = C19_Table(input.radiusKm) + 1

\* C19 witness: the two radii lie on the two sides of the 0.15 km threshold
C19_Witness ==
    /\ output # None
    /\ input.call = "getGeohashRange"
    /\ input.radiusKm = 1500
    /\ input.otherRadiusKm = 1501
    /\ Len(output[1].range.min) = 7
    /\ Len(output[1].otherRange.min) = 6


\* C20: calculateDistance(a, a) is 0, and for all a, b calculateDistance(a, b)
\* is a non-negative number equal to calculateDistance(b, a).
C20_DistanceIsMetric ==
    output # None =>
        /\ ~output[1].aa.nan /\ output[1].aa.cm = 0
        /\ ~output[1].ab.nan /\ output[1].ab.cm >= 0
        /\ ~output[1].ba.nan /\ output[1].ba.cm = output[1].ab.cm


\* C21: a submission is rejected only for categories that a record of the same
\* submitter from the last 90 days holds within 0.1 km: a record older than
\* that causes no rejection.
C21_OnlyRecentHistory ==
    \A t \in DOMAIN tabs :
        tabs[t].readLen # None =>
            \A c \in Range(tabs[t].duplicateCategories) :
                \E i \in 1..tabs[t].readLen[1] :
                    /\ store[i].userId = UserOfBrowser
                    /\ store[i].timestamp >= Today - RetentionDays
                    /\ c \in CategoriesOf(store[i].selectedTiles)
                    /\ Within100m(store[i].location, tabs[t].location[1])


\* two records of one submitter that share a canonical category within 0.1 km
Colliding(d, e) ==
    /\ d.userId = e.userId
    /\ CategoriesOf(d.selectedTiles) \cap CategoriesOf(e.selectedTiles) # {}
    /\ Within100m(d.location, e.location)

C30_TileKeys == {"tile1", "tile2", "tile3", "tile10"}

\* the location and the tiles pass the checks the claim lists
C30_Valid(location, selectedTiles) ==
    /\ location # None
    /\ location[1].lat >= -900000 /\ location[1].lat <= 900000
    /\ location[1].lon >= -1800000 /\ location[1].lon <= 1800000
    /\ DOMAIN selectedTiles \subseteq C30_TileKeys
    /\ \A key \in DOMAIN selectedTiles : selectedTiles[key] \in BOOLEAN
    /\ \E key \in DOMAIN selectedTiles : selectedTiles[key] = TRUE

\* the state part of C30: every stored record is valid, and an execution is
\* under way only for a valid form
C30_RecordsValid ==
    /\ \A i \in DOMAIN store : C30_Valid(Some(store[i].location), store[i].selectedTiles)
    /\ \A t \in DOMAIN tabs :
          (tabs[t].pc # "idle" \/ tabs[t].isSubmitting)
              => C30_Valid(tabs[t].location, tabs[t].selectedTiles)

\* the step part of C30: a click that finds an invalid form writes nothing
\* and leaves isSubmitting false
C30_InvalidStops ==
    \A t \in DOMAIN tabs :
        (/\ tabs[t].pc = "idle"
         /\ tabs'[t] # tabs[t]
         /\ ~C30_Valid(tabs'[t].location, tabs'[t].selectedTiles))
        => /\ store' = store
           /\ tabs'[t].pc = "idle"
           /\ ~tabs'[t].isSubmitting
           /\ tabs'[t].written = None
           /\ tabs'[t].alert \in {"locationNotAvailable", "invalidCoordinates",
                                  "selectAtLeastOne"}

\* C30: every record handleSubmit writes has a latitude in [-90, 90], a
\* longitude in [-180, 180], a slot set to true and only boolean slots with
\* keys tile<digits>; a form that fails a check leads to no write, with
\* isSubmitting left false.
C30_OnlyValidWritten == [](C30_RecordsValid) /\ [][C30_InvalidStops]_vars

\* C30 witness: a record was written, and the click after it found a latitude
\* beyond 90 degrees
C30_Witness ==
    /\ \E i \in DOMAIN store : store[i].timestamp = Today
    /\ \E t \in DOMAIN tabs :
          /\ tabs[t].alert = "invalidCoordinates"
          /\ tabs[t].location # None
          /\ tabs[t].location[1].lat > 900000
          /\ ~tabs[t].isSubmitting


\* two points at most threshold centimetres apart, from the squared distance
WithinCm(a, b, threshold) ==
    CmSqPerUnitSq * ((a.lat - b.lat) * (a.lat - b.lat) + (a.lon - b.lon) * (a.lon - b.lon))
        <= threshold * threshold

\* the first member of the k-th cluster of the output
SeedOf(k) == output[1][k].submissions[1]

\* C22: a submission still unassigned when a seed's scan runs joins the seed's
\* cluster exactly when it is at most thresholdKm from the seed: every member
\* is that near its cluster's first member, and no member of a later cluster
\* is that near the seed of an earlier one.
C22_SeedDecidesMembership ==
    output # None =>
        \A k \in DOMAIN output[1] :
            /\ \A m \in DOMAIN output[1][k].submissions :
                  WithinCm(output[1][k].submissions[m].location, SeedOf(k).location,
                           thresholdKm)
            /\ \A later \in DOMAIN output[1] :
                  later > k =>
                      \A m \in DOMAIN output[1][later].submissions :
                          ~WithinCm(output[1][later].submissions[m].location,
                                    SeedOf(k).location, thresholdKm)

\* C22 witness: the seed absorbed a member on each side, the second one too
\* far from the first member absorbed and from the center the two had
C22_Witness ==
    /\ output # None
    /\ thresholdKm = 5000
    /\ Len(output[1]) = 1
    /\ Len(input) = 3
    /\ ~WithinCm(input[2].location, input[3].location, thresholdKm)
    /\ ~WithinCm([lat |-> 2 * input[3].location.lat, lon |-> 2 * input[3].location.lon],
                 [lat |-> input[1].location.lat + input[2].location.lat,
                  lon |-> input[1].location.lon + input[2].location.lon],
                 2 * thresholdKm)

\* C23: with thresholdKm = 0 two submissions share a cluster only if their
\* coordinates coincide, and a submission whose coordinates differ from all
\* others is a cluster of its own with count 1 and its location as center.
C23_ZeroThreshold ==
    (output # None /\ thresholdKm = 0) =>
        /\ \A k \in DOMAIN output[1] :
              \A m \in DOMAIN output[1][k].submissions :
                  output[1][k].submissions[m].location = SeedOf(k).location
        /\ \A i \in DOMAIN input :
              (\A j \in DOMAIN input : j # i => input[j].location # input[i].location)
              => \E k \in DOMAIN output[1] :
                    /\ output[1][k].submissions = <<input[i]>>
                    /\ output[1][k].count = 1
                    /\ output[1][k].center.lat.num
                          = input[i].location.lat * output[1][k].center.lat.den
                    /\ output[1][k].center.lon.num
                          = input[i].location.lon * output[1][k].center.lon.den

\* C23 witness: with threshold 0, of three submissions 44 m and 0 m apart the
\* coincident two share a cluster and the third is alone
C23_Witness ==
    /\ output # None
    /\ thresholdKm = 0
    /\ Len(input) = 3
    /\ input[1].location = input[3].location
    /\ input[2].location = PointB
    /\ input[1].location = PointA
    /\ Len(output[1]) = 2
    /\ output[1][1].count = 2
    /\ output[1][2].count = 1

\* the locations of the members of the k-th cluster of the output
MemberLocations(k) ==
    [m \in DOMAIN output[1][k].submissions |-> output[1][k].submissions[m].location]

\* C24: of three submissions the middle one of which is within the threshold of
\* both others while these two are farther apart, the order that starts with
\* the middle one gives one cluster of three, and the order that starts with
\* an outer one gives that one with the middle one, and the other outer one
\* alone.
C24_OrderMatters ==
    (output # None /\ Len(input) = 3) =>
        LET p == input[1].location
            q == input[2].location
            r == input[3].location
        IN  /\ (/\ WithinCm(p, q, thresholdKm) /\ WithinCm(p, r, thresholdKm)
                /\ ~WithinCm(q, r, thresholdKm))
               => /\ Len(output[1]) = 1
                  /\ MemberLocations(1) = <<p, q, r>>
            /\ (/\ WithinCm(p, q, thresholdKm) /\ WithinCm(q, r, thresholdKm)
                /\ ~WithinCm(p, r, thresholdKm))
               => /\ Len(output[1]) = 2
                  /\ MemberLocations(1) = <<p, q>>
                  /\ MemberLocations(2) = <<r>>

\* C24 witness: the order [B, A, C] with its one cluster
C24_Witness ==
    /\ output # None
    /\ thresholdKm = 5000
    /\ Len(input) = 3
    /\ input[1].location = PointB
    /\ input[2].location = PointA
    /\ input[3].location = PointC
    /\ Len(output[1]) = 1
    /\ output[1][1].count = 3

\* C28: the seeds of two clusters of one pass are more than thresholdKm apart,
\* the clusters come in increasing order of the input index of their seed, and
\* their ids, the seed indices, are pairwise distinct.
C28_SeedsApart ==
    output # None =>
        /\ \A k \in DOMAIN output[1] :
              /\ output[1][k].id + 1 \in DOMAIN input
              /\ SeedOf(k) = input[output[1][k].id + 1]
        /\ \A k \in DOMAIN output[1], later \in DOMAIN output[1] :
              k < later =>
                  /\ output[1][k].id < output[1][later].id
                  /\ ~WithinCm(SeedOf(k).location, SeedOf(later).location, thresholdKm)

\* C28 witness: two clusters, the second seeded by the third submission after
\* the first absorbed the second submission
C28_Witness ==
    /\ output # None
    /\ Len(output[1]) = 2
    /\ output[1][1].id = 0
    /\ output[1][1].count = 2
    /\ output[1][2].id = 2


\* C25: two records written by the executions under way in two tabs of one
\* submitter collide only when the executions overlapped: the one that wrote
\* later had read the history before the other's record was stored.  That
\* this happens is the witness.
C25_CollisionOnlyByOverlap ==
    \A t \in DOMAIN tabs, u \in DOMAIN tabs :
        (/\ t # u
         /\ tabs[t].written # None
         /\ tabs[u].written # None
         /\ tabs[t].written[1] < tabs[u].written[1]
         /\ Colliding(store[tabs[t].written[1]], store[tabs[u].written[1]]))
        => /\ tabs[u].readLen[1] < tabs[t].written[1]
           /\ tabs[t].duplicateCategories = <<>>
           /\ tabs[u].duplicateCategories = <<>>

\* C25 witness: both tabs passed the check and wrote, and the store holds their
\* two records, of one submitter, with a common category, within 0.1 km
C25_Witness ==
    \E t \in DOMAIN tabs, u \in DOMAIN tabs :
        /\ t # u
        /\ tabs[t].written # None /\ tabs[t].alert = "dataSubmitted"
        /\ tabs[u].written # None /\ tabs[u].alert = "dataSubmitted"
        /\ tabs[t].written[1] < tabs[u].written[1]
        /\ tabs[u].readLen[1] < tabs[t].written[1]
        /\ Colliding(store[tabs[t].written[1]], store[tabs[u].written[1]])

\* C27: once nothing is pending any more (no query in flight, no debounce
\* timer, the debounce window over), the submissions shown are the result of a
\* query for the last viewport reported to handleBoundsChange.
C27_SettlesOnLatestViewport ==
    (/\ currentBounds # None
     /\ inflight = <<>>
     /\ fetchTimeoutRef = None
     /\ sinceChange = "elapsed")
    => /\ lastDone # None
       /\ lastDone[1].outcome = "ok"
       /\ lastDone[1].bounds = currentBounds[1]
       /\ submissions = FetchedData(store, currentBounds[1])

\* the state part of C29: the guard is held only while a query is in flight
C29_GuardOnlyInFlight == isFetchingRef => Len(inflight) > 0

\* the step part of C29: the step that answers a query, either way, leaves
\* isFetchingRef and loadingData false
C29_AnswerReleases ==
    Len(inflight') < Len(inflight) => (~isFetchingRef' /\ ~loadingData')

\* C29: every execution of fetchSubmissionsInBounds that started a query ends,
\* whether the query succeeded or failed, with isFetchingRef and loadingData
\* false, so that a later call can start a query.
C29_GuardReleased == [](C29_GuardOnlyInFlight) /\ [][C29_AnswerReleases]_vars

\* C29 witness: after a failed query a later call started a new one
C29_Witness ==
    /\ lastDone # None
    /\ lastDone[1].outcome = "failed"
    /\ lastFetch.result = "issued"
    /\ Len(inflight) = 1
    /\ isFetchingRef

=============================================================================
